---- MODULE Spec2Model ----
(***************************************************************************)
(* Weather data pipeline: Extraction -> raw staging -> Validation ->       *)
(* validated / rejected staging -> Load (MERGE into the warehouse) ->      *)
(* archive.  Modelled from code/ingestion/extract.py, validate.py and      *)
(* load.py; the strict validator and the live-ingestion main are modelled  *)
(* from code/great_expectation/weather_with_pre_validation.py.             *)
(* move_s3_object is modelled from code/ingestion/s3_utils.py.              *)
(*                                                                         *)
(* Python values that may be None are modelled as sequences of length at   *)
(* most one: <<>> is None / an absent key, <<v>> is the value v.           *)
(***************************************************************************)
EXTENDS Integers, Sequences, FiniteSets, TLC

\* ------------------------------------------------------------------ bounds
NumCities == 3
MaxClock == 1
MaxRuns == 4
\* Faults (failed fetch, unreadable file, failed MERGE, refused connection,
\* killed process) the environment injects in one behaviour of the pipeline.
MaxFaults == 1
\* weather_with_pre_validation.py, main: its list has 5 cities, scaled.
MainCities == 2
TZ_OFFSET == 1
\* extract.py sets BATCH_SIZE = 50 for a list of 87 cities; both are scaled.
BATCH_SIZE == 2

AllCities == <<"Lagos", "Abuja", "Cairo", "Nairobi", "Johannesburg">>

CITIES == [i \in 1..NumCities |-> AllCities[i]]

None == <<>>

Some(v) == <<v>>

\* ----------------------------------------------------------------- records
\* One observation as returned by the weather API, nested blocks flattened:
\* main.temp -> temp, sys.country -> country, wind.speed -> wind_speed, ...
GoodObservation(city) ==
    [name |-> Some(city), country |-> Some("NG"),
     temp |-> Some(20), feels_like |-> Some(19),
     temp_min |-> Some(18), temp_max |-> Some(22),
     pressure |-> Some(1013), humidity |-> Some(65),
     weather |-> Some(<<[main |-> "Clear", description |-> "clear sky"]>>),
     wind_speed |-> Some(5), wind_deg |-> Some(180), clouds |-> Some(20),
     dt |-> Some(1), meta |-> None]

\* The bodies the API may answer with (status 200) for a city at a time:
\* the observation of a city is revised as time passes.
Observations(city, clock) ==
    LET g == GoodObservation(city)
        first == clock % 2 = 0
    IN CASE city = "Lagos" ->
              IF first THEN {g}
              ELSE {[g EXCEPT !.temp = Some(25), !.humidity = Some(70),
                              !.weather =
                                 Some(<<[main |-> "Rain",
                                         description |-> "light rain"]>>),
                              !.pressure = Some(1009)]}
         [] city = "Abuja" ->
              IF first THEN {[g EXCEPT !.humidity = Some(150)]}
              ELSE {[g EXCEPT !.dt = None]}
         [] city = "Cairo" ->
              IF first THEN {[g EXCEPT !.temp = Some(100)]}
              ELSE {g}
         [] OTHER -> {g}

\* An HTTP exchange: requests.get raised, or answered with a status and body.
Responses(city, clock) ==
    {[kind |-> "exception", status |-> 0, body |-> None]}
      \cup {[kind |-> "http", status |-> 404, body |-> None]}
      \cup {[kind |-> "http", status |-> 200, body |-> Some(o)] :
              o \in Observations(city, clock)}

fetch_weather(resp) ==
    IF resp.kind = "exception" THEN None
    ELSE IF resp.status = 200 THEN resp.body
    ELSE None

\* ------------------------------------------------------------- file names
\* weather_batch_{batch_number:03d}_{timestamp}.json, and the names that
\* validate.py derives with replace('.json', '_<suffix>.json').
RawName(batch_number, timestamp) ==
    [batch |-> batch_number, ts |-> timestamp, suffix |-> ""]

WithSuffix(original_filename, suffix) ==
    [original_filename EXCEPT !.suffix = suffix]

\* A directory is a function from the names of its files to their contents.
EmptyDir == << >>

Put(dir, name, content) ==
    [n \in (DOMAIN dir) \cup {name} |-> IF n = name THEN content ELSE dir[n]]

Remove(dir, name) ==
    [n \in (DOMAIN dir) \ {name} |-> dir[n]]

Range(s) == {s[i] : i \in DOMAIN s}

RECURSIVE Flatten(_)
Flatten(ss) ==
    IF ss = <<>> THEN <<>> ELSE Head(ss) \o Flatten(Tail(ss))

\* -------------------------------------------------- validate.py validator
TruthyStr(o) == o # None /\ o[1] # ""

TruthyNum(o) == o # None /\ o[1] # 0

\* Mutation: the basic temperature limits are -40 and 50.
BasicErrors_NarrowRange(data) ==
    (IF ~TruthyStr(data.name) THEN <<"Missing City Name">> ELSE <<>>)
    \o (IF ~TruthyNum(data.temp) THEN <<"Missing Temperature">> ELSE <<>>)
    \o (IF TruthyNum(data.temp)
           /\ (data.temp[1] < -40 \/ data.temp[1] > 50)
        THEN <<"Temperature is unrealistic">> ELSE <<>>)

\* WeatherDataValidator.validate of validate.py (two checks): the errors.
BasicErrors(data) ==
    (IF ~TruthyStr(data.name) THEN <<"Missing City Name">> ELSE <<>>)
    \o (IF ~TruthyNum(data.temp) THEN <<"Missing Temperature">> ELSE <<>>)
    \o (IF TruthyNum(data.temp)
           /\ (data.temp[1] < -90 \/ data.temp[1] > 60)
        THEN <<"Temperature is unrealistic">> ELSE <<>>)

BasicValidate(data) ==
    [is_valid |-> Len(BasicErrors(data)) = 0, errors |-> BasicErrors(data)]

\* weather_with_pre_validation.py, _check_humidity: the strict humidity rule.
StrictHumidityErrors(data) ==
    IF data.humidity = None THEN <<>>
    ELSE IF data.humidity[1] < 0 \/ data.humidity[1] > 100
         THEN <<"Humidity is invalid (must be 0-100%)">>
         ELSE <<>>

\* ------------------------- weather_with_pre_validation.py, the validator
\* len(s) of the strings the model uses.
StrLen(s) ==
    CASE s = "" -> 0
      [] s = "L" -> 1
      [] s \in {"NG", "GB", "N1"} -> 2
      [] s = "NGA" -> 3
      [] s \in {"Lagos", "Abuja", "Cairo", "Tokyo", "L@gos"} -> 5
      [] s = "London" -> 6
      [] s = "Nairobi" -> 7
      [] s = "New York" -> 8
      [] s = "Johannesburg" -> 12

\* s.replace(' ', '').replace('-', '').replace("'", '').isalnum()
IsAlnumName(s) == s \notin {"", "L@gos"}

\* s.isalpha()
IsAlpha(s) == s \notin {"", "N1"}

TruthySeq(o) == o # None /\ o[1] # <<>>

\* Mutation: "is None" instead of "not value": an empty value passes.
StrictMissing_IsNone(data) ==
    [name |-> data.name = None,
     country |-> data.country = None,
     temp |-> data.temp = None,
     humidity |-> data.humidity = None,
     pressure |-> data.pressure = None,
     weather |-> data.weather = None]

\* "not self._get_nested_value(data, path)" for each required path.
StrictMissing(data) ==
    [name |-> ~TruthyStr(data.name),
     country |-> ~TruthyStr(data.country),
     temp |-> ~TruthyNum(data.temp),
     humidity |-> ~TruthyNum(data.humidity),
     pressure |-> ~TruthyNum(data.pressure),
     weather |-> ~TruthySeq(data.weather)]

\* _check_required_fields: one error per required path whose value is
\* falsy, in the order of required_paths.
StrictRequiredErrors(data) ==
    LET m == StrictMissing(data)
    IN (IF m.name THEN <<"Missing required field: City name">> ELSE <<>>)
       \o (IF m.country THEN <<"Missing required field: Country code">>
           ELSE <<>>)
       \o (IF m.temp THEN <<"Missing required field: Temperature">>
           ELSE <<>>)
       \o (IF m.humidity THEN <<"Missing required field: Humidity">>
           ELSE <<>>)
       \o (IF m.pressure THEN <<"Missing required field: Pressure">>
           ELSE <<>>)
       \o (IF m.weather THEN <<"Missing required field: Weather conditions">>
           ELSE <<>>)

\* _check_temperature
StrictTemperatureErrors(data) ==
    IF data.temp = None THEN <<>>
    ELSE IF data.temp[1] < -90 \/ data.temp[1] > 60
         THEN <<"Temperature is outside valid range">>
         ELSE <<>>

StrictTemperatureWarnings(data) ==
    IF data.temp = None THEN <<>>
    ELSE IF data.temp[1] < -40 \/ data.temp[1] > 50
         THEN <<"Temperature is unusual but possible">>
         ELSE <<>>

\* _check_pressure
StrictPressureErrors(data) ==
    IF data.pressure = None THEN <<>>
    ELSE IF data.pressure[1] < 870 \/ data.pressure[1] > 1085
         THEN <<"Pressure is outside valid range">>
         ELSE <<>>

StrictPressureWarnings(data) ==
    IF data.pressure = None THEN <<>>
    ELSE IF data.pressure[1] < 950 \/ data.pressure[1] > 1050
         THEN <<"Pressure is unusual (possible extreme weather)">>
         ELSE <<>>

\* _check_city_name
StrictCityErrors(data) ==
    IF data.name = None THEN <<>>
    ELSE (IF StrLen(data.name[1]) < 2
          THEN <<"City name is too short">> ELSE <<>>)
         \o (IF StrLen(data.name[1]) > 50
             THEN <<"City name is too long">> ELSE <<>>)

StrictCityWarnings(data) ==
    IF data.name = None THEN <<>>
    ELSE IF ~IsAlnumName(data.name[1])
         THEN <<"City name contains unusual characters">>
         ELSE <<>>

\* _check_country_code
StrictCountryErrors(data) ==
    IF data.country = None THEN <<>>
    ELSE (IF StrLen(data.country[1]) # 2
          THEN <<"Country code is invalid (must be 2 characters)">>
          ELSE <<>>)
         \o (IF ~IsAlpha(data.country[1])
             THEN <<"Country code must contain only letters">>
             ELSE <<>>)

\* _check_wind_speed
StrictWindErrors(data) ==
    IF data.wind_speed = None THEN <<>>
    ELSE (IF data.wind_speed[1] < 0
          THEN <<"Wind speed cannot be negative">> ELSE <<>>)
         \o (IF data.wind_speed[1] > 113
             THEN <<"Wind speed exceeds maximum recorded wind speed">>
             ELSE <<>>)

StrictWindWarnings(data) ==
    IF data.wind_speed = None THEN <<>>
    ELSE IF data.wind_speed[1] > 33
         THEN <<"Wind speed indicates hurricane-force winds">>
         ELSE <<>>

\* Mutation: validate returns is_valid = True whatever errors it collected.
StrictValidate_AlwaysValid(data) ==
    [data |-> Some(data),
     is_valid |-> TRUE,
     validation_errors |->
        StrictRequiredErrors(data) \o StrictTemperatureErrors(data)
        \o StrictHumidityErrors(data) \o StrictPressureErrors(data)
        \o StrictCityErrors(data) \o StrictCountryErrors(data)
        \o StrictWindErrors(data),
     validation_warnings |->
        StrictTemperatureWarnings(data) \o StrictPressureWarnings(data)
        \o StrictCityWarnings(data) \o StrictWindWarnings(data)]

\* WeatherDataValidator.validate: the validator object after the call.
StrictValidate(data) ==
    LET errors == StrictRequiredErrors(data)
                    \o StrictTemperatureErrors(data)
                    \o StrictHumidityErrors(data)
                    \o StrictPressureErrors(data)
                    \o StrictCityErrors(data)
                    \o StrictCountryErrors(data)
                    \o StrictWindErrors(data)
        warnings == StrictTemperatureWarnings(data)
                      \o StrictPressureWarnings(data)
                      \o StrictCityWarnings(data)
                      \o StrictWindWarnings(data)
    IN [data |-> Some(data),
        is_valid |-> Len(errors) = 0,
        validation_errors |-> errors,
        validation_warnings |-> warnings]

\* ------------------------------------------------ validate.py, one batch
EmptyMeta == [validated_at |-> None, validation_errors |-> None]

EnsureMeta(record) ==
    IF record.meta = None THEN [record EXCEPT !.meta = Some(EmptyMeta)]
    ELSE record

\* Mutation: the verdict is ignored, every record goes to the valid list.
ValidateRecord_AcceptAll(record, clock) ==
    [valid |-> TRUE,
     record |-> [EnsureMeta(record) EXCEPT
                   !.meta[1].validated_at = Some(clock)]]

\* Mutation: validated_at is stamped before the verdict is looked at.
ValidateRecord_StampAll(record, clock) ==
    LET v == BasicValidate(record)
        r == [EnsureMeta(record) EXCEPT !.meta[1].validated_at = Some(clock)]
    IN IF v.is_valid
       THEN [valid |-> TRUE, record |-> r]
       ELSE [valid |-> FALSE,
             record |-> [r EXCEPT !.meta[1].validation_errors =
                                     Some(v.errors)]]

\* The body of "for record in records": the record as annotated, and the
\* list it is appended to.
ValidateRecord(record, clock) ==
    LET v == BasicValidate(record)
        r == EnsureMeta(record)
    IN IF v.is_valid
       THEN [valid |-> TRUE,
             record |-> [r EXCEPT !.meta[1].validated_at = Some(clock)]]
       ELSE [valid |-> FALSE,
             record |-> [r EXCEPT !.meta[1].validation_errors =
                                     Some(v.errors)]]

RECURSIVE ValidBatch(_, _)
ValidBatch(records, clock) ==
    IF records = <<>> THEN <<>>
    ELSE LET o == ValidateRecord(Head(records), clock)
         IN (IF o.valid THEN <<o.record>> ELSE <<>>)
            \o ValidBatch(Tail(records), clock)

\* Mutation: rejected records are inserted at the front of the list.
RECURSIVE RejectedBatch_Reversed(_, _)
RejectedBatch_Reversed(records, clock) ==
    IF records = <<>> THEN <<>>
    ELSE LET o == ValidateRecord(Head(records), clock)
         IN RejectedBatch_Reversed(Tail(records), clock)
            \o (IF o.valid THEN <<>> ELSE <<o.record>>)

RECURSIVE RejectedBatch(_, _)
RejectedBatch(records, clock) ==
    IF records = <<>> THEN <<>>
    ELSE LET o == ValidateRecord(Head(records), clock)
         IN (IF o.valid THEN <<>> ELSE <<o.record>>)
            \o RejectedBatch(Tail(records), clock)

\* save_batch of validate.py: nothing is written for an empty list.
validate_save_batch(dir, data, original_filename, suffix) ==
    IF data = <<>> THEN dir
    ELSE Put(dir, WithSuffix(original_filename, suffix), data)

\* ------------------------------------------------- extract.py save_batch
EnvelopeOf(batch_data, batch_number, clock) ==
    [meta |-> [batch_id |-> batch_number,
               record_count |-> Len(batch_data),
               fetched_at |-> clock],
     records |-> batch_data]

extract_save_batch(dir, batch_data, batch_number, clock) ==
    IF batch_data = <<>> THEN dir
    ELSE Put(dir, RawName(batch_number, clock),
             EnvelopeOf(batch_data, batch_number, clock))

\* What the run has written, as a history of (name, payload).
extract_written(hist, batch_data, batch_number, clock) ==
    IF batch_data = <<>> THEN hist
    ELSE Append(hist, [name |-> RawName(batch_number, clock),
                       payload |-> EnvelopeOf(batch_data, batch_number,
                                              clock)])

\* ------------------------------------------------------ load.py, one row
fromtimestamp(dt) == dt + TZ_OFFSET

\* Lines 77-102 of load_batch: the field extraction, which raises on a
\* record without dt (fromtimestamp(None)) or with an empty weather list
\* ([][0]).
ExtractRaises(record) ==
    record.dt = None \/ record.weather = Some(<<>>)

ExtractFields(record) ==
    LET w == IF record.weather = None
             THEN [main |-> "", description |-> ""]
             ELSE record.weather[1][1]
    IN [city |-> record.name,
        timestamp |-> Some(fromtimestamp(record.dt[1])),
        temp |-> record.temp,
        feels_like |-> record.feels_like,
        temp_min |-> record.temp_min,
        temp_max |-> record.temp_max,
        pressure |-> record.pressure,
        humidity |-> record.humidity,
        weather_main |-> Some(w.main),
        description |-> Some(w.description),
        wind_speed |-> record.wind_speed,
        wind_deg |-> record.wind_deg,
        clouds |-> record.clouds,
        country |-> IF record.country = None THEN Some("")
                    ELSE record.country]

\* Mutation: the ON clause also compares the temperature.
Matched_OnTemperature(row, p) ==
    /\ p.city # None /\ p.timestamp # None
    /\ row.city = p.city
    /\ row.timestamp = p.timestamp
    /\ row.temperature = p.temp

\* ON target.city = source.city AND target.timestamp = source.obs_time
\* (a comparison with NULL is not true).
Matched(row, p) ==
    /\ p.city # None /\ p.timestamp # None
    /\ row.city = p.city
    /\ row.timestamp = p.timestamp

\* Mutation: WHEN MATCHED also sets the pressure.
UpdateRow_WithPressure(row, p, clock) ==
    [row EXCEPT !.temperature = p.temp,
                !.humidity = p.humidity,
                !.pressure = p.pressure,
                !.weather_description = p.description,
                !.ingestion_timestamp = Some(clock)]

\* WHEN MATCHED THEN UPDATE SET ...
UpdateRow(row, p, clock) ==
    [row EXCEPT !.temperature = p.temp,
                !.humidity = p.humidity,
                !.weather_description = p.description,
                !.ingestion_timestamp = Some(clock)]

InsertRow(id, p, clock) ==
    [id |-> id, city |-> p.city, country |-> p.country,
     temperature |-> p.temp, feels_like |-> p.feels_like,
     temp_min |-> p.temp_min, temp_max |-> p.temp_max,
     pressure |-> p.pressure, humidity |-> p.humidity,
     weather_main |-> p.weather_main,
     weather_description |-> p.description,
     wind_speed |-> p.wind_speed, wind_deg |-> p.wind_deg,
     clouds |-> p.clouds, timestamp |-> p.timestamp,
     ingestion_timestamp |-> Some(clock)]

\* Mutation: a plain INSERT instead of the MERGE.
Merge_AlwaysInsert(rows, id, p, clock) ==
    [rows |-> rows \cup {InsertRow(id, p, clock)}, next_id |-> id + 1]

\* The MERGE statement: the table and the AUTOINCREMENT counter after it.
Merge(rows, id, p, clock) ==
    IF \E row \in rows : Matched(row, p)
    THEN [rows |-> {IF Matched(row, p) THEN UpdateRow(row, p, clock)
                    ELSE row : row \in rows},
          next_id |-> id]
    ELSE [rows |-> rows \cup {InsertRow(id, p, clock)},
          next_id |-> id + 1]

\* ------------------------------------------------ extract.py, loop body
\* Mutation: the record is put at the front of the buffer.
AppendFetched_Prepend(buffer, data) ==
    IF data # None THEN <<data[1]>> \o buffer ELSE buffer

\* "if data: batch_buffer.append(data)"
AppendFetched(buffer, data) ==
    IF data # None THEN Append(buffer, data[1]) ELSE buffer

\* Mutation: > instead of >=.
BufferFull_Late(buffer) == Len(buffer) > BATCH_SIZE

\* "if len(batch_buffer) >= BATCH_SIZE"
BufferFull(buffer) == Len(buffer) >= BATCH_SIZE

\* Mutation: a batch number is skipped after each full batch.
NextBatchCount_Skip(count) == count + 2

\* "batch_count += 1"
NextBatchCount(count) == count + 1

\* ---------------------------------------------------------------- helpers
NoFile == [batch |-> 0, ts |-> 0, suffix |-> ""]

StripMeta(record) == [record EXCEPT !.meta = None]

\* A warehouse row without its ingestion_timestamp.
NormRow(row) == [row EXCEPT !.ingestion_timestamp = None]

Norm(rows) == {NormRow(row) : row \in rows}

\* The run of run_loading the scheduler starts.
LoadRunners == {1}

\* Two runs of run_loading that may overlap: the scheduled one and another
\* whose start does not wait for it.
OverlapRunners == {1, 2}

\* A run that has returned, raised or been killed, before its process exits.
Ended == {"done", "crashed", "raised"}

VARIABLES
    now,            \* wall clock, in seconds
    runs,           \* number of stage runs the scheduler has started
    budget,         \* number of faults the environment may still inject
    raw,            \* data/raw
    validated,      \* data/validated
    rejected,       \* data/rejected
    archive,        \* data/archive
    warehouse,      \* rows of weather_data
    next_id,        \* the AUTOINCREMENT counter of weather_data.id
    ex_pc,          \* run_extraction: "idle", "fetch", "done", "crashed"
    ex_i,           \* run_extraction: index of the next city
    batch_buffer,   \* run_extraction: batch_buffer
    batch_count,    \* run_extraction: batch_count
    total_fetched,  \* run_extraction: total_fetched
    ex_results,     \* history: per city of this run, what fetch_weather gave
    ex_written,     \* history: the payloads this run passed to json.dump
    va_pc,          \* process_batches: "idle", "loop", "done", "crashed"
    va_todo,        \* process_batches: files not yet iterated over
    va_log,         \* history: per file of this run, how its iteration ended
    ld,             \* run_loading, per runner: pc, todo, cur (filename),
                    \* records, idx, count (success_count), log (history)
    accepted,       \* history: records validate.py accepted and saved
    merged,         \* history: records whose MERGE executed
    last_pass,      \* history: the table after the first complete pass of
                    \* load_batch over the current file, and the passes since
    validator,      \* the WeatherDataValidator object of the strict
                    \* validator: its last input, verdict, errors, warnings
    mn,             \* main of weather_with_pre_validation.py: pc, i, j,
                    \* valid_data, the counters and lists, the exit status
    bucket,         \* the S3 bucket: key -> body
    mv              \* a call of move_s3_object: pc, the keys, the result

vars == <<now, runs, budget, raw, validated, rejected, archive, warehouse, next_id,
          ex_pc, ex_i, batch_buffer, batch_count, total_fetched, ex_results, ex_written, va_pc, va_todo, va_log, ld,
          accepted, merged, last_pass, validator, mn, bucket, mv>>

storeVars == <<raw, validated, rejected, archive>>

whVars == <<warehouse, next_id, merged, last_pass>>

exVars == <<ex_pc, ex_i, batch_buffer, batch_count, total_fetched, ex_results, ex_written>>

vaVars == <<va_pc, va_todo, va_log, accepted>>

\* WeatherDataValidator.__init__
FreshValidator ==
    [data |-> None, is_valid |-> TRUE,
     validation_errors |-> <<>>, validation_warnings |-> <<>>]

MAIN_CITIES == <<"London", "New York", "Tokyo", "Lagos", "Abuja">>

cities == [i \in 1..MainCities |-> MAIN_CITIES[i]]

IdleMain ==
    [pc |-> "idle", i |-> 0, j |-> 0, valid_data |-> <<>>,
     validated_count |-> 0, ingested_count |-> 0,
     failed_validation |-> <<>>, warnings_list |-> <<>>,
     exit_status |-> None]

\* No call of move_s3_object is in progress.
IdleMove ==
    [pc |-> "idle", source_key |-> <<>>, dest_key |-> <<>>, blob |-> None,
     before |-> EmptyDir, copied |-> FALSE, result |-> None]

IdleRunner ==
    [pc |-> "idle", todo |-> {}, cur |-> NoFile, records |-> <<>>,
     idx |-> 0, count |-> 0, log |-> <<>>]

Init ==
    /\ now = 0 /\ runs = 0 /\ budget = MaxFaults
    /\ raw = EmptyDir /\ validated = EmptyDir
    /\ rejected = EmptyDir /\ archive = EmptyDir
    /\ warehouse = {} /\ next_id = 1
    /\ ex_pc = "idle" /\ ex_i = 0 /\ batch_buffer = <<>>
    /\ batch_count = 1 /\ total_fetched = 0
    /\ ex_results = <<>> /\ ex_written = <<>>
    /\ va_pc = "idle" /\ va_todo = {} /\ va_log = <<>>
    /\ ld = [r \in OverlapRunners |-> IdleRunner]
    /\ accepted = {} /\ merged = {} /\ last_pass = None
    /\ validator = FreshValidator /\ mn = IdleMain
    /\ bucket = EmptyDir /\ mv = IdleMove

\* The scheduler starts a stage only when no stage is running.
AllStopped ==
    /\ ex_pc = "idle"
    /\ va_pc = "idle"
    /\ \A r \in LoadRunners : ld[r].pc = "idle"

\* Time passes between two runs.
Tick ==
    /\ AllStopped
    /\ now < MaxClock
    /\ now' = now + 1
    /\ UNCHANGED <<bucket, mv, validator, mn, runs, budget, storeVars, whVars, exVars, vaVars, ld>>

\* ------------------------------------------------------- run_extraction
ExtractStart ==
    /\ AllStopped
    /\ runs < MaxRuns
    /\ runs' = runs + 1
    /\ ex_pc' = "fetch" /\ ex_i' = 1
    /\ batch_buffer' = <<>> /\ batch_count' = 1 /\ total_fetched' = 0
    /\ ex_results' = <<>> /\ ex_written' = <<>>
    /\ UNCHANGED <<bucket, mv, validator, mn, now, budget, storeVars, whVars, vaVars, ld>>

\* One iteration of "for i, city in enumerate(CITIES, 1)".
ExtractCity ==
    /\ ex_pc = "fetch"
    /\ ex_i <= Len(CITIES)
    /\ \E resp \in Responses(CITIES[ex_i], now) :
         LET data == fetch_weather(resp)
             buffer == AppendFetched(batch_buffer, data)
         IN /\ IF data = None
               THEN budget > 0 /\ budget' = budget - 1
               ELSE budget' = budget
            /\ ex_results' = Append(ex_results, data)
            /\ total_fetched' =
                 IF data # None THEN total_fetched + 1 ELSE total_fetched
            /\ IF BufferFull(buffer)
               THEN /\ raw' = extract_save_batch(raw, buffer, batch_count,
                                                 now)
                    /\ ex_written' = extract_written(ex_written, buffer,
                                                     batch_count, now)
                    /\ batch_buffer' = <<>>
                    /\ batch_count' = NextBatchCount(batch_count)
               ELSE /\ batch_buffer' = buffer
                    /\ UNCHANGED <<raw, ex_written, batch_count>>
    /\ ex_i' = ex_i + 1
    /\ UNCHANGED <<bucket, mv, validator, mn, now, runs, validated, rejected, archive, whVars, ex_pc,
                   vaVars, ld>>

\* "if batch_buffer: save_batch(batch_buffer, batch_count)" and the return.
ExtractFinish ==
    /\ ex_pc = "fetch"
    /\ ex_i > Len(CITIES)
    /\ raw' = extract_save_batch(raw, batch_buffer, batch_count, now)
    /\ ex_written' = extract_written(ex_written, batch_buffer, batch_count,
                                     now)
    /\ ex_pc' = "done"
    /\ UNCHANGED <<bucket, mv, validator, mn, now, runs, budget, validated, rejected, archive, whVars, ex_i,
                   batch_buffer, batch_count, total_fetched, ex_results, vaVars, ld>>

\* The process is killed during the run.
ExtractCrash ==
    /\ budget > 0
    /\ budget' = budget - 1
    /\ ex_pc = "fetch"
    /\ ex_pc' = "crashed"
    /\ UNCHANGED <<bucket, mv, validator, mn, now, runs, storeVars, whVars, ex_i, batch_buffer, batch_count,
                   total_fetched, ex_results, ex_written, vaVars,
                   ld>>

\* The process exits: its local variables are gone.
ExtractExit ==
    /\ ex_pc \in Ended
    /\ ex_pc' = "idle" /\ ex_i' = 0 /\ batch_buffer' = <<>>
    /\ batch_count' = 1 /\ total_fetched' = 0
    /\ ex_results' = <<>> /\ ex_written' = <<>>
    /\ UNCHANGED <<bucket, mv, validator, mn, now, runs, budget, storeVars, whVars, vaVars, ld>>

\* ------------------------------------------------------ process_batches
ValidateStart ==
    /\ AllStopped
    /\ runs < MaxRuns
    /\ runs' = runs + 1
    /\ va_todo' = DOMAIN raw
    /\ va_pc' = IF DOMAIN raw = {} THEN "done" ELSE "loop"
    /\ va_log' = <<>>
    /\ UNCHANGED <<bucket, mv, validator, mn, now, budget, storeVars, whVars, exVars, accepted, ld>>

\* One iteration of "for filename in files" that reaches the two save_batch
\* calls.  The raw file is not moved.
ValidateBatch ==
    /\ va_pc = "loop"
    /\ \E filename \in va_todo :
         LET records == raw[filename].records
             valid_batch == ValidBatch(records, now)
             rejected_batch == RejectedBatch(records, now)
         IN /\ validated' = validate_save_batch(validated, valid_batch,
                                                filename, "valid")
            /\ rejected' = validate_save_batch(rejected, rejected_batch,
                                               filename, "rejected")
            /\ accepted' = accepted \cup
                 {StripMeta(records[i]) :
                    i \in {j \in DOMAIN records :
                             /\ BasicValidate(records[j]).is_valid
                             /\ \E k \in DOMAIN valid_batch :
                                  StripMeta(valid_batch[k]) =
                                    StripMeta(records[j])}}
            /\ va_log' = Append(va_log, [file |-> filename,
                                         outcome |-> "ok"])
            /\ va_todo' = va_todo \ {filename}
    /\ UNCHANGED <<bucket, mv, validator, mn, now, runs, budget, raw, archive, whVars, exVars, va_pc, ld>>

\* Mutation: the try encloses the whole loop, so the exception ends it.
ValidateBatchError_EndsLoop ==
    /\ budget > 0
    /\ budget' = budget - 1
    /\ va_pc = "loop"
    /\ \E filename \in va_todo :
         /\ va_log' = Append(va_log, [file |-> filename,
                                      outcome |-> "error"])
         /\ va_todo' = va_todo \ {filename}
    /\ va_pc' = "done"
    /\ UNCHANGED <<bucket, mv, validator, mn, now, runs, storeVars, whVars, exVars, accepted, ld>>

\* One iteration in which open / json.load raises: caught and printed.
ValidateBatchError ==
    /\ budget > 0
    /\ budget' = budget - 1
    /\ va_pc = "loop"
    /\ \E filename \in va_todo :
         /\ va_log' = Append(va_log, [file |-> filename,
                                      outcome |-> "error"])
         /\ va_todo' = va_todo \ {filename}
    /\ UNCHANGED <<bucket, mv, validator, mn, now, runs, storeVars, whVars, exVars, va_pc, accepted, ld>>

ValidateFinish ==
    /\ va_pc = "loop"
    /\ va_todo = {}
    /\ va_pc' = "done"
    /\ UNCHANGED <<bucket, mv, validator, mn, now, runs, budget, storeVars, whVars, exVars, va_todo, va_log,
                   accepted, ld>>

ValidateCrash ==
    /\ budget > 0
    /\ budget' = budget - 1
    /\ va_pc = "loop"
    /\ va_pc' = "crashed"
    /\ UNCHANGED <<bucket, mv, validator, mn, now, runs, storeVars, whVars, exVars, va_todo, va_log,
                   accepted, ld>>

ValidateExit ==
    /\ va_pc \in Ended
    /\ va_pc' = "idle" /\ va_todo' = {} /\ va_log' = <<>>
    /\ UNCHANGED <<bucket, mv, validator, mn, now, runs, budget, storeVars, whVars, exVars, accepted, ld>>

\* ---------------------------------------------------------- run_loading
\* listdir, get_snowflake_conn and ensure_table_exists.
LoadStart(r) ==
    /\ AllStopped
    /\ runs < MaxRuns
    /\ runs' = runs + 1
    /\ ld' = [ld EXCEPT ![r] =
                [IdleRunner EXCEPT
                   !.pc = IF DOMAIN validated = {} THEN "done" ELSE "loop",
                   !.todo = DOMAIN validated]]
    /\ UNCHANGED <<bucket, mv, validator, mn, now, budget, storeVars, whVars, exVars, vaVars>>

\* get_snowflake_conn raises: run_loading raises to its caller.
LoadConnectError(r) ==
    /\ budget > 0
    /\ budget' = budget - 1
    /\ AllStopped
    /\ runs < MaxRuns
    /\ runs' = runs + 1
    /\ DOMAIN validated # {}
    /\ ld' = [ld EXCEPT ![r] = [IdleRunner EXCEPT !.pc = "raised"]]
    /\ UNCHANGED <<bucket, mv, validator, mn, now, storeVars, whVars, exVars, vaVars>>

\* load_batch, up to the loop over the records.
LoadOpen(r) ==
    /\ ld[r].pc = "loop"
    /\ \E filename \in ld[r].todo \cap DOMAIN validated :
         LET records == validated[filename]
         IN ld' = [ld EXCEPT ![r].todo = @ \ {filename},
                             ![r].cur = filename,
                             ![r].records = records,
                             ![r].idx = 1,
                             ![r].count = 0,
                             ![r].pc = IF records = <<>> THEN "archive"
                                       ELSE "merge"]
    /\ UNCHANGED <<bucket, mv, validator, mn, now, runs, budget, storeVars, whVars, exVars, vaVars>>

\* Mutation: the exception is not caught and ends the run.
LoadOpenError_Uncaught(r) ==
    /\ budget > 0
    /\ budget' = budget - 1
    /\ ld[r].pc = "loop"
    /\ \E filename \in ld[r].todo :
         ld' = [ld EXCEPT ![r].pc = "raised",
                          ![r].log = Append(@, [file |-> filename,
                                                outcome |-> "read_error",
                                                size |-> 0,
                                                count |-> 0])]
    /\ UNCHANGED <<bucket, mv, validator, mn, now, runs, storeVars, whVars, exVars, vaVars>>

\* open / json.load raises: caught by run_loading, next file.
LoadOpenError(r) ==
    /\ budget > 0
    /\ budget' = budget - 1
    /\ ld[r].pc = "loop"
    /\ \E filename \in ld[r].todo :
         ld' = [ld EXCEPT ![r].todo = @ \ {filename},
                          ![r].log = Append(@, [file |-> filename,
                                                outcome |-> "read_error",
                                                size |-> 0,
                                                count |-> 0])]
    /\ UNCHANGED <<bucket, mv, validator, mn, now, runs, storeVars, whVars, exVars, vaVars>>

AfterRecord(r) ==
    IF ld[r].idx = Len(ld[r].records) THEN "archive" ELSE "merge"

SamePass(r) ==
    /\ last_pass # None
    /\ last_pass[1].file = ld[r].cur
    /\ last_pass[1].records = ld[r].records

\* One iteration of "for record in records" whose cursor.execute succeeds.
LoadRecordMerge(r) ==
    /\ ld[r].pc = "merge"
    /\ LET record == ld[r].records[ld[r].idx]
           m == Merge(warehouse, next_id, ExtractFields(record), now)
           complete == /\ ld[r].idx = Len(ld[r].records)
                       /\ ld[r].count + 1 = Len(ld[r].records)
       IN /\ ~ExtractRaises(record)
          /\ warehouse' = m.rows
          /\ next_id' = m.next_id
          /\ merged' = merged \cup {StripMeta(record)}
          /\ last_pass' =
               IF SamePass(r)
               THEN IF complete
                    THEN Some([last_pass[1] EXCEPT !.passes = 2])
                    ELSE last_pass
               ELSE IF complete
                    THEN Some([file |-> ld[r].cur,
                               records |-> ld[r].records,
                               rows |-> Norm(m.rows),
                               passes |-> 1])
                    ELSE None
          /\ ld' = [ld EXCEPT ![r].count = @ + 1,
                              ![r].idx = @ + 1,
                              ![r].pc = AfterRecord(r)]
    /\ UNCHANGED <<bucket, mv, validator, mn, now, runs, budget, storeVars, exVars, vaVars>>

\* Mutation: success_count is incremented although cursor.execute raised.
LoadRecordMergeError_Counted(r) ==
    /\ budget > 0
    /\ budget' = budget - 1
    /\ ld[r].pc = "merge"
    /\ ~ExtractRaises(ld[r].records[ld[r].idx])
    /\ ld' = [ld EXCEPT ![r].idx = @ + 1,
                        ![r].count = @ + 1,
                        ![r].pc = AfterRecord(r)]
    /\ UNCHANGED <<bucket, mv, validator, mn, now, runs, storeVars, whVars, exVars, vaVars>>

\* One iteration whose cursor.execute raises: caught inside load_batch.
LoadRecordMergeError(r) ==
    /\ budget > 0
    /\ budget' = budget - 1
    /\ ld[r].pc = "merge"
    /\ ~ExtractRaises(ld[r].records[ld[r].idx])
    /\ ld' = [ld EXCEPT ![r].idx = @ + 1,
                        ![r].pc = AfterRecord(r)]
    /\ UNCHANGED <<bucket, mv, validator, mn, now, runs, storeVars, whVars, exVars, vaVars>>

\* One iteration whose field extraction raises: the exception leaves
\* load_batch and is caught by run_loading, which goes to the next file.
LoadRecordRaise(r) ==
    /\ ld[r].pc = "merge"
    /\ ExtractRaises(ld[r].records[ld[r].idx])
    /\ ld' = [ld EXCEPT ![r].pc = "loop",
                        ![r].log = Append(@, [file |-> ld[r].cur,
                                              outcome |-> "aborted",
                                              size |-> Len(ld[r].records),
                                              count |-> ld[r].count])]
    /\ UNCHANGED <<bucket, mv, validator, mn, now, runs, budget, storeVars, whVars, exVars, vaVars>>

\* shutil.move(src_path, dest_path)
LoadArchive(r) ==
    /\ ld[r].pc = "archive"
    /\ ld[r].cur \in DOMAIN validated
    /\ validated' = Remove(validated, ld[r].cur)
    /\ archive' = Put(archive, ld[r].cur, validated[ld[r].cur])
    /\ ld' = [ld EXCEPT ![r].pc = "loop",
                        ![r].log = Append(@, [file |-> ld[r].cur,
                                              outcome |-> "archived",
                                              size |-> Len(ld[r].records),
                                              count |-> ld[r].count])]
    /\ UNCHANGED <<bucket, mv, validator, mn, now, runs, budget, raw, rejected, whVars, exVars, vaVars>>

\* conn.close() and the return.
LoadFinish(r) ==
    /\ ld[r].pc = "loop"
    /\ ld[r].todo = {}
    /\ ld' = [ld EXCEPT ![r].pc = "done"]
    /\ UNCHANGED <<bucket, mv, validator, mn, now, runs, budget, storeVars, whVars, exVars, vaVars>>

\* The process is killed during the run.
LoadCrash(r) ==
    /\ budget > 0
    /\ budget' = budget - 1
    /\ ld[r].pc \in {"loop", "merge", "archive"}
    /\ ld' = [ld EXCEPT ![r].pc = "crashed"]
    /\ UNCHANGED <<bucket, mv, validator, mn, now, runs, storeVars, whVars, exVars, vaVars>>

LoadExit(r) ==
    /\ ld[r].pc \in Ended
    /\ ld' = [ld EXCEPT ![r] = IdleRunner]
    /\ UNCHANGED <<bucket, mv, validator, mn, now, runs, budget, storeVars, whVars, exVars, vaVars>>

Next ==
    \/ Tick
    \/ ExtractStart
    \/ ExtractCity
    \/ ExtractFinish
    \/ ExtractCrash
    \/ ExtractExit
    \/ ValidateStart
    \/ ValidateBatch
    \/ ValidateBatchError
    \/ ValidateFinish
    \/ ValidateCrash
    \/ ValidateExit
    \/ \E r \in LoadRunners : LoadStart(r)
    \/ \E r \in LoadRunners : LoadConnectError(r)
    \/ \E r \in LoadRunners : LoadOpen(r)
    \/ \E r \in LoadRunners : LoadOpenError(r)
    \/ \E r \in LoadRunners : LoadRecordMerge(r)
    \/ \E r \in LoadRunners : LoadRecordMergeError(r)
    \/ \E r \in LoadRunners : LoadRecordRaise(r)
    \/ \E r \in LoadRunners : LoadArchive(r)
    \/ \E r \in LoadRunners : LoadFinish(r)
    \/ \E r \in LoadRunners : LoadCrash(r)
    \/ \E r \in LoadRunners : LoadExit(r)

Spec == Init /\ [][Next]_vars

\* Extraction alone, where any fetch may fail.
InitExtract ==
    /\ now = 0 /\ runs = 0 /\ budget = Len(CITIES)
    /\ raw = EmptyDir /\ validated = EmptyDir
    /\ rejected = EmptyDir /\ archive = EmptyDir
    /\ warehouse = {} /\ next_id = 1
    /\ ex_pc = "idle" /\ ex_i = 0 /\ batch_buffer = <<>>
    /\ batch_count = 1 /\ total_fetched = 0
    /\ ex_results = <<>> /\ ex_written = <<>>
    /\ va_pc = "idle" /\ va_todo = {} /\ va_log = <<>>
    /\ ld = [r \in OverlapRunners |-> IdleRunner]
    /\ accepted = {} /\ merged = {} /\ last_pass = None
    /\ validator = FreshValidator /\ mn = IdleMain
    /\ bucket = EmptyDir /\ mv = IdleMove

NextExtract ==
    \/ Tick
    \/ ExtractStart
    \/ ExtractCity
    \/ ExtractFinish
    \/ ExtractCrash
    \/ ExtractExit

SpecExtract == InitExtract /\ [][NextExtract]_vars

\* Validation alone, over raw staging as it may be found: one or two
\* batches of at most BATCH_SIZE records each, a batch without records
\* included.
RawRecordPool ==
    {GoodObservation("Lagos"),
     [GoodObservation("Abuja") EXCEPT !.humidity = Some(150)],
     [GoodObservation("Cairo") EXCEPT !.temp = Some(100)],
     [GoodObservation("Nairobi") EXCEPT !.temp = Some(0)],
     [GoodObservation("Lagos") EXCEPT !.name = None]}

RawBatches ==
    UNION {[1..k -> RawRecordPool] : k \in 0..BATCH_SIZE}

RawInputs ==
    {Put(EmptyDir, RawName(1, 0), EnvelopeOf(b, 1, 0)) : b \in RawBatches}
      \cup {Put(Put(EmptyDir, RawName(1, 0), EnvelopeOf(b, 1, 0)),
                 RawName(2, 0),
                 EnvelopeOf(<<GoodObservation("Cairo")>>, 2, 0)) :
               b \in RawBatches}

InitValidate ==
    /\ raw \in RawInputs
    /\ now = 0 /\ runs = 0 /\ budget = MaxFaults
    /\ validated = EmptyDir
    /\ rejected = EmptyDir /\ archive = EmptyDir
    /\ warehouse = {} /\ next_id = 1
    /\ ex_pc = "idle" /\ ex_i = 0 /\ batch_buffer = <<>>
    /\ batch_count = 1 /\ total_fetched = 0
    /\ ex_results = <<>> /\ ex_written = <<>>
    /\ va_pc = "idle" /\ va_todo = {} /\ va_log = <<>>
    /\ ld = [r \in OverlapRunners |-> IdleRunner]
    /\ accepted = {} /\ merged = {} /\ last_pass = None
    /\ validator = FreshValidator /\ mn = IdleMain
    /\ bucket = EmptyDir /\ mv = IdleMove

NextValidate ==
    \/ Tick
    \/ ValidateStart
    \/ ValidateBatch
    \/ ValidateBatchError
    \/ ValidateFinish
    \/ ValidateCrash
    \/ ValidateExit

SpecValidate == InitValidate /\ [][NextValidate]_vars

\* ------------------------------- weather_with_pre_validation.py, main
pipelineVars ==
    <<now, runs, budget, storeVars, exVars, vaVars, ld, bucket, mv>>

\* What the API may answer to main for a city: a plain observation, one
\* with an impossible temperature, an unusual one, one without feels_like.
MainBodies(city) ==
    LET g == [GoodObservation(city) EXCEPT !.country = Some("GB")]
    IN {g,
        [g EXCEPT !.temp = Some(-150)],
        [g EXCEPT !.temp = Some(-45)],
        [g EXCEPT !.feels_like = None]}

\* get_weather_data: None on a RequestException, else response.json().
get_weather_data(city) ==
    {None} \cup {Some(b) : b \in MainBodies(city)}

\* The subscripts of insert_weather_data that raise KeyError, IndexError or
\* TypeError inside its try.
InsertRaises(data) ==
    \/ data.name = None \/ data.country = None \/ data.temp = None
    \/ data.feels_like = None \/ data.temp_min = None
    \/ data.temp_max = None \/ data.pressure = None
    \/ data.humidity = None \/ ~TruthySeq(data.weather)
    \/ data.wind_speed = None \/ data.clouds = None \/ data.dt = None

\* The row of the INSERT statement.
MainRow(id, data, clock) ==
    [InsertRow(id, ExtractFields(data), clock) EXCEPT
       !.wind_deg = IF data.wind_deg = None THEN Some(0) ELSE data.wind_deg]

\* The if / elif / else at the end of main: exit(1), exit(1), return.
ExitStatus(ingested_count, total_cities) ==
    IF ingested_count = 0 THEN 1
    ELSE IF ingested_count < total_cities THEN 1
    ELSE 0

\* connect_to_snowflake returned a connection; create_weather_table.
MainStart ==
    /\ mn.pc = "idle"
    /\ mn' = [mn EXCEPT !.pc = "fetch", !.i = 1]
    /\ UNCHANGED <<pipelineVars, whVars, validator>>

\* connect_to_snowflake returned None: "if not conn: ... return".
MainNoConnection ==
    /\ mn.pc = "idle"
    /\ mn' = [mn EXCEPT !.pc = "exited", !.exit_status = Some(0)]
    /\ UNCHANGED <<pipelineVars, whVars, validator>>

\* One iteration of "for city in cities" (phase 1).
MainCity ==
    /\ mn.pc = "fetch"
    /\ mn.i <= Len(cities)
    /\ \E weather_data \in get_weather_data(cities[mn.i]) :
         IF weather_data = None
         THEN /\ mn' = [mn EXCEPT
                          !.failed_validation = Append(@, cities[mn.i]),
                          !.i = @ + 1]
              /\ UNCHANGED validator
         ELSE LET v == StrictValidate(weather_data[1])
              IN /\ validator' = v
                 /\ mn' = [mn EXCEPT
                      !.warnings_list =
                         IF v.validation_warnings # <<>>
                         THEN Append(@, [city |-> cities[mn.i],
                                         warnings |-> v.validation_warnings])
                         ELSE @,
                      !.failed_validation =
                         IF v.is_valid THEN @ ELSE Append(@, cities[mn.i]),
                      !.valid_data =
                         IF v.is_valid
                         THEN Append(@, [city |-> cities[mn.i],
                                         weather_data |-> weather_data[1]])
                         ELSE @,
                      !.validated_count = IF v.is_valid THEN @ + 1 ELSE @,
                      !.i = @ + 1]
    /\ UNCHANGED <<pipelineVars, whVars>>

\* The end of phase 1.
MainFetched ==
    /\ mn.pc = "fetch"
    /\ mn.i > Len(cities)
    /\ mn' = [mn EXCEPT !.pc = "ingest", !.j = 1]
    /\ UNCHANGED <<pipelineVars, whVars, validator>>

\* One iteration of "for city, weather_data in valid_data" in which
\* insert_weather_data returns True or, on a KeyError, False.
MainInsert ==
    /\ mn.pc = "ingest"
    /\ mn.j <= Len(mn.valid_data)
    /\ LET data == mn.valid_data[mn.j].weather_data
       IN IF InsertRaises(data)
          THEN /\ mn' = [mn EXCEPT !.j = @ + 1]
               /\ UNCHANGED <<warehouse, next_id>>
          ELSE /\ warehouse' = warehouse \cup {MainRow(next_id, data, now)}
               /\ next_id' = next_id + 1
               /\ mn' = [mn EXCEPT !.j = @ + 1, !.ingested_count = @ + 1]
    /\ UNCHANGED <<pipelineVars, merged, last_pass, validator>>

\* An iteration in which cursor.execute raises: caught, returns False.
MainInsertError ==
    /\ mn.pc = "ingest"
    /\ mn.j <= Len(mn.valid_data)
    /\ mn' = [mn EXCEPT !.j = @ + 1]
    /\ UNCHANGED <<pipelineVars, whVars, validator>>

\* conn.close(), the summary and the end of the process.
MainSummary ==
    /\ mn.pc = "ingest"
    /\ mn.j > Len(mn.valid_data)
    /\ mn' = [mn EXCEPT
                !.pc = "exited",
                !.exit_status =
                   Some(ExitStatus(mn.ingested_count, Len(cities)))]
    /\ UNCHANGED <<pipelineVars, whVars, validator>>

NextMain ==
    \/ MainStart
    \/ MainNoConnection
    \/ MainCity
    \/ MainFetched
    \/ MainInsert
    \/ MainInsertError
    \/ MainSummary

SpecMain == Init /\ [][NextMain]_vars

\* ------------------------------------------- test_data_quality_gates.py
\* The records the validator is called with: every combination of an
\* absent, empty, boundary or ordinary name, country, temperature and
\* humidity; records without pressure or weather; ordinary records with one
\* unusual value.
StrictInputs ==
    LET g == [GoodObservation("Lagos") EXCEPT !.country = Some("GB")]
    IN {[g EXCEPT !.name = n, !.country = c, !.temp = t, !.humidity = h] :
          n \in {None, Some(""), Some("Lagos")},
          c \in {None, Some("GB")},
          t \in {None, Some(-150), Some(-90), Some(-45), Some(0),
                 Some(20), Some(60), Some(61)},
          h \in {None, Some(-1), Some(0), Some(65), Some(100), Some(150)}}
       \cup {[g EXCEPT !.pressure = p, !.weather = w] :
                p \in {None, Some(1013)},
                w \in {None, Some(<<>>), g.weather}}
       \cup {[g EXCEPT !.country = None, !.humidity = None,
                       !.pressure = None, !.weather = Some(<<>>)],
              [g EXCEPT !.name = None, !.country = None, !.temp = None,
                        !.humidity = None, !.pressure = None,
                        !.weather = None],
              [g EXCEPT !.name = Some("L")],
              [g EXCEPT !.name = Some("L@gos")],
              [g EXCEPT !.country = Some("")],
              [g EXCEPT !.country = Some("NGA")],
              [g EXCEPT !.country = Some("N1")],
              [g EXCEPT !.pressure = Some(0)],
              [g EXCEPT !.pressure = Some(800)],
              [g EXCEPT !.pressure = Some(960)],
              [g EXCEPT !.wind_speed = None],
              [g EXCEPT !.wind_speed = Some(-1)],
              [g EXCEPT !.wind_speed = Some(0)],
              [g EXCEPT !.wind_speed = Some(33)],
              [g EXCEPT !.wind_speed = Some(34)],
              [g EXCEPT !.wind_speed = Some(40)],
              [g EXCEPT !.wind_speed = Some(113)],
              [g EXCEPT !.wind_speed = Some(114)],
              [g EXCEPT !.wind_speed = Some(120)]}

\* "is_valid, errors, warnings = validator.validate(...)"
StrictCall ==
    /\ \E data \in StrictInputs : validator' = StrictValidate(data)
    /\ UNCHANGED <<pipelineVars, whVars, mn>>

NextStrict == StrictCall

SpecStrict == Init /\ [][NextStrict]_vars

\* ------------------------------------------------ s3_utils.py, move_s3_object
\* A key is the sequence of its segments: "data/raw/f.json" is
\* <<"data", "raw", "f.json">>.
S3Folders == {<<"data", "raw">>, <<"data", "archive">>}

S3FileNames == {"weather_batch_001.json", "weather_batch_002.json"}

S3Keys == {folder \o <<filename>> : folder \in S3Folders,
                                     filename \in S3FileNames}

S3Bodies == {"a", "b"}

\* source_key.split('/')[-1]
FileNameOf(key) == key[Len(key)]

\* f"{dest_folder}/{filename}"
DestKey(source_key, dest_folder) == dest_folder \o <<FileNameOf(source_key)>>

\* get_s3_client and the computation of dest_key.
MoveStart ==
    /\ mv.pc = "idle"
    /\ \E source_key \in S3Keys, dest_folder \in S3Folders :
         mv' = [pc |-> "copy",
                source_key |-> source_key,
                dest_key |-> DestKey(source_key, dest_folder),
                blob |-> IF source_key \in DOMAIN bucket
                         THEN Some(bucket[source_key]) ELSE None,
                before |-> bucket,
                copied |-> FALSE,
                result |-> None]
    /\ UNCHANGED <<now, runs, budget, storeVars, exVars, vaVars, ld, whVars,
                   validator, mn, bucket>>

\* s3.copy_object succeeds.  S3 refuses to copy an object onto itself and
\* to copy a key that does not exist.
MoveCopy ==
    /\ mv.pc = "copy"
    /\ mv.source_key \in DOMAIN bucket
    /\ mv.source_key # mv.dest_key
    /\ bucket' = Put(bucket, mv.dest_key, bucket[mv.source_key])
    /\ mv' = [mv EXCEPT !.pc = "delete", !.copied = TRUE]
    /\ UNCHANGED <<now, runs, budget, storeVars, exVars, vaVars, ld, whVars,
                   validator, mn>>

\* Mutation: the original is deleted although the copy raised.
MoveCopyFails_StillDeletes ==
    /\ mv.pc = "copy"
    /\ bucket' = Remove(bucket, mv.source_key)
    /\ mv' = [mv EXCEPT !.pc = "returned", !.result = Some(FALSE)]
    /\ UNCHANGED <<now, runs, budget, storeVars, exVars, vaVars, ld, whVars,
                   validator, mn>>

\* s3.copy_object raises: caught, "return False".
MoveCopyFails ==
    /\ mv.pc = "copy"
    /\ mv' = [mv EXCEPT !.pc = "returned", !.result = Some(FALSE)]
    /\ UNCHANGED <<now, runs, budget, storeVars, exVars, vaVars, ld, whVars,
                   validator, mn, bucket>>

\* s3.delete_object succeeds: "return True".
MoveDelete ==
    /\ mv.pc = "delete"
    /\ bucket' = Remove(bucket, mv.source_key)
    /\ mv' = [mv EXCEPT !.pc = "returned", !.result = Some(TRUE)]
    /\ UNCHANGED <<now, runs, budget, storeVars, exVars, vaVars, ld, whVars,
                   validator, mn>>

\* s3.delete_object raises: caught, "return False".
MoveDeleteFails ==
    /\ mv.pc = "delete"
    /\ mv' = [mv EXCEPT !.pc = "returned", !.result = Some(FALSE)]
    /\ UNCHANGED <<now, runs, budget, storeVars, exVars, vaVars, ld, whVars,
                   validator, mn, bucket>>

\* The process is killed before the copy or between copy and delete.
MoveCrash ==
    /\ mv.pc \in {"copy", "delete"}
    /\ mv' = [mv EXCEPT !.pc = "crashed"]
    /\ UNCHANGED <<now, runs, budget, storeVars, exVars, vaVars, ld, whVars,
                   validator, mn, bucket>>

\* The caller goes on; a later call starts from the bucket as it is.
MoveExit ==
    /\ mv.pc \in {"returned", "crashed"}
    /\ mv' = IdleMove
    /\ UNCHANGED <<now, runs, budget, storeVars, exVars, vaVars, ld, whVars,
                   validator, mn, bucket>>

\* The bucket holds any blobs under the keys of the two folders.
InitMove ==
    /\ bucket \in UNION {[keys -> S3Bodies] : keys \in SUBSET S3Keys}
    /\ mv = IdleMove
    /\ now = 0 /\ runs = 0 /\ budget = MaxFaults
    /\ raw = EmptyDir /\ validated = EmptyDir
    /\ rejected = EmptyDir /\ archive = EmptyDir
    /\ warehouse = {} /\ next_id = 1
    /\ ex_pc = "idle" /\ ex_i = 0 /\ batch_buffer = <<>>
    /\ batch_count = 1 /\ total_fetched = 0
    /\ ex_results = <<>> /\ ex_written = <<>>
    /\ va_pc = "idle" /\ va_todo = {} /\ va_log = <<>>
    /\ ld = [r \in OverlapRunners |-> IdleRunner]
    /\ accepted = {} /\ merged = {} /\ last_pass = None
    /\ validator = FreshValidator /\ mn = IdleMain

NextMove ==
    \/ MoveStart
    \/ MoveCopy
    \/ MoveCopyFails
    \/ MoveDelete
    \/ MoveDeleteFails
    \/ MoveCrash
    \/ MoveExit

SpecMove == InitMove /\ [][NextMove]_vars

\* ------------------------------------------- two overlapping Load runs
\* run_loading started while another run of it may be in progress.
LoadStartOverlap(r) ==
    /\ ld[r].pc = "idle"
    /\ runs < MaxRuns
    /\ runs' = runs + 1
    /\ ld' = [ld EXCEPT ![r] =
                [IdleRunner EXCEPT
                   !.pc = IF DOMAIN validated = {} THEN "done" ELSE "loop",
                   !.todo = DOMAIN validated]]
    /\ UNCHANGED <<bucket, mv, validator, mn, now, budget, storeVars, whVars, exVars, vaVars>>

\* open raises FileNotFoundError on a listed file another run has moved:
\* caught by run_loading, next file.
LoadOpenMissing(r) ==
    /\ ld[r].pc = "loop"
    /\ \E filename \in ld[r].todo \ DOMAIN validated :
         ld' = [ld EXCEPT ![r].todo = @ \ {filename},
                          ![r].log = Append(@, [file |-> filename,
                                                outcome |-> "read_error",
                                                size |-> 0,
                                                count |-> 0])]
    /\ UNCHANGED <<bucket, mv, validator, mn, now, runs, budget, storeVars, whVars, exVars, vaVars>>

\* Mutation: the exception of shutil.move is not caught and ends the run.
LoadArchiveMissing_Uncaught(r) ==
    /\ ld[r].pc = "archive"
    /\ ld[r].cur \notin DOMAIN validated
    /\ ld' = [ld EXCEPT ![r].pc = "raised",
                        ![r].log = Append(@, [file |-> ld[r].cur,
                                              outcome |-> "move_error",
                                              size |-> Len(ld[r].records),
                                              count |-> ld[r].count])]
    /\ UNCHANGED <<bucket, mv, validator, mn, now, runs, budget, storeVars, whVars, exVars, vaVars>>

\* shutil.move raises FileNotFoundError on a file another run has moved
\* since this run opened it: caught by run_loading, next file.
LoadArchiveMissing(r) ==
    /\ ld[r].pc = "archive"
    /\ ld[r].cur \notin DOMAIN validated
    /\ ld' = [ld EXCEPT ![r].pc = "loop",
                        ![r].log = Append(@, [file |-> ld[r].cur,
                                              outcome |-> "move_error",
                                              size |-> Len(ld[r].records),
                                              count |-> ld[r].count])]
    /\ UNCHANGED <<bucket, mv, validator, mn, now, runs, budget, storeVars, whVars, exVars, vaVars>>

\* The fetched batches validation has turned into validated files: a first
\* batch of one or two records and a second batch of one record, which is
\* another city's, the same observation revised, or one without dt.
OverlapBatches ==
    {<<b1, b2>> :
       b1 \in {<<GoodObservation("Lagos")>>,
               <<GoodObservation("Lagos"), GoodObservation("Nairobi")>>},
       b2 \in {<<GoodObservation("Cairo")>>,
               <<[GoodObservation("Lagos") EXCEPT !.temp = Some(25),
                                                 !.pressure = Some(1009)]>>,
               <<[GoodObservation("Abuja") EXCEPT !.dt = None]>>}}

ValidatedOf(batches) ==
    validate_save_batch(
        validate_save_batch(EmptyDir, ValidBatch(batches[1], 0),
                            RawName(1, 0), "valid"),
        ValidBatch(batches[2], 0), RawName(2, 0), "valid")

InitOverlap ==
    /\ validated \in {ValidatedOf(batches) : batches \in OverlapBatches}
    /\ now = 0 /\ runs = 0 /\ budget = MaxFaults
    /\ raw = EmptyDir
    /\ rejected = EmptyDir /\ archive = EmptyDir
    /\ warehouse = {} /\ next_id = 1
    /\ ex_pc = "idle" /\ ex_i = 0 /\ batch_buffer = <<>>
    /\ batch_count = 1 /\ total_fetched = 0
    /\ ex_results = <<>> /\ ex_written = <<>>
    /\ va_pc = "idle" /\ va_todo = {} /\ va_log = <<>>
    /\ ld = [r \in OverlapRunners |-> IdleRunner]
    /\ accepted = {} /\ merged = {} /\ last_pass = None
    /\ validator = FreshValidator /\ mn = IdleMain
    /\ bucket = EmptyDir /\ mv = IdleMove

NextOverlap ==
    \/ \E r \in OverlapRunners : LoadStartOverlap(r)
    \/ \E r \in OverlapRunners : LoadOpen(r)
    \/ \E r \in OverlapRunners : LoadOpenError(r)
    \/ \E r \in OverlapRunners : LoadOpenMissing(r)
    \/ \E r \in OverlapRunners : LoadRecordMerge(r)
    \/ \E r \in OverlapRunners : LoadRecordMergeError(r)
    \/ \E r \in OverlapRunners : LoadRecordRaise(r)
    \/ \E r \in OverlapRunners : LoadArchive(r)
    \/ \E r \in OverlapRunners : LoadArchiveMissing(r)
    \/ \E r \in OverlapRunners : LoadFinish(r)
    \/ \E r \in OverlapRunners : LoadCrash(r)
    \/ \E r \in OverlapRunners : LoadExit(r)

SpecOverlap == InitOverlap /\ [][NextOverlap]_vars

\* ================================================================ claims
RecordsOf(dir) == UNION {Range(dir[f]) : f \in DOMAIN dir}

\* The records fetch_weather returned in this run, in city order.
RECURSIVE Fetched(_)
Fetched(results) ==
    IF results = <<>> THEN <<>>
    ELSE (IF Head(results) # None THEN <<Head(results)[1]>> ELSE <<>>)
         \o Fetched(Tail(results))

WrittenRecords == Flatten([i \in DOMAIN ex_written |->
                             ex_written[i].payload.records])

\* C1: every record whose MERGE executed, and every warehouse row, comes
\* from a record that validation accepted and saved to validated staging;
\* no record of a rejected blob is merged.
C1_ValidationGating ==
    /\ merged \subseteq accepted
    /\ \A row \in warehouse :
         \E rec \in accepted :
           /\ ~ExtractRaises(rec)
           /\ row.city = rec.name
           /\ row.timestamp = Some(fromtimestamp(rec.dt[1]))
           /\ row.temperature = rec.temp
           /\ row.humidity = rec.humidity
    /\ \A rec \in RecordsOf(rejected) : StripMeta(rec) \notin merged

C1_Witness ==
    /\ warehouse # {}
    /\ RecordsOf(rejected) # {}
    /\ \E r \in LoadRunners : ld[r].pc = "done"

\* C2: once validation has processed a raw batch, every record of it whose
\* humidity is outside [0, 100] is in the rejected output with a humidity
\* message among its validation_errors, and is not in the validated output.
C2_StrictRulesApplied ==
    \A i \in DOMAIN va_log :
      va_log[i].outcome = "ok" =>
        LET f == va_log[i].file
            v == WithSuffix(f, "valid")
            j == WithSuffix(f, "rejected")
        IN \A rec \in Range(raw[f].records) :
             StrictHumidityErrors(rec) # <<>> =>
               /\ v \in DOMAIN validated =>
                    \A x \in Range(validated[v]) : StripMeta(x) # rec
               /\ j \in DOMAIN rejected
               /\ \E x \in Range(rejected[j]) :
                    /\ StripMeta(x) = rec
                    /\ x.meta[1].validation_errors # None
                    /\ \E e \in Range(x.meta[1].validation_errors[1]) :
                         e \in Range(StrictHumidityErrors(rec))

\* C3: a raw batch that validation processed without error is absent from
\* raw staging and present in archive.
C3_RawRetired ==
    \A i \in DOMAIN va_log :
      va_log[i].outcome = "ok" =>
        /\ va_log[i].file \notin DOMAIN raw
        /\ va_log[i].file \in DOMAIN archive

\* C4: when load_batch has gone over a validated batch again, every MERGE
\* executing, the warehouse is what it was after the first complete pass
\* over that batch, ingestion_timestamp aside.
C4_LoadIdempotent ==
    \A r \in LoadRunners :
      (/\ ld[r].pc = "archive"
       /\ ld[r].count = Len(ld[r].records)
       /\ SamePass(r))
      => Norm(warehouse) = last_pass[1].rows

C4_Witness ==
    \E r \in LoadRunners :
      /\ ld[r].pc = "archive"
      /\ ld[r].count = Len(ld[r].records)
      /\ SamePass(r)
      /\ last_pass[1].passes = 2
      /\ \E row \in warehouse : row.ingestion_timestamp = Some(now)

\* C5: the warehouse never holds two rows for one (city, timestamp).
C5_NoDoubleCounting ==
    \A a \in warehouse : \A b \in warehouse :
      (a.city = b.city /\ a.timestamp = b.timestamp) => a = b

\* A row inserted from one observation and updated from a revised one.
C5_Witness ==
    \E row \in warehouse :
      /\ row.pressure = Some(1013)
      /\ row.temperature = Some(25)
      /\ row.ingestion_timestamp = Some(now)

\* C6: no batch that Load could read is aborted: every such batch ends in
\* archive.
C6_MalformedRecordSkipped ==
    \A r \in LoadRunners : \A i \in DOMAIN ld[r].log :
      ld[r].log[i].outcome # "read_error" =>
        ld[r].log[i].outcome = "archived"

\* C7: a batch is moved to archive only if every one of its records was
\* merged.
C7_UnmergedBatchNotArchived ==
    \A r \in LoadRunners : \A i \in DOMAIN ld[r].log :
      ld[r].log[i].outcome = "archived" =>
        ld[r].log[i].count = ld[r].log[i].size

\* C8: a step in which a validated blob cannot be read changes neither the
\* warehouse nor any staging area, and the run goes on with the other files.
ReadErrorStep(r) ==
    /\ ld[r].pc = "loop"
    /\ Len(ld'[r].log) = Len(ld[r].log) + 1
    /\ ld'[r].log[Len(ld'[r].log)].outcome = "read_error"

C8_UnreadableBlobLeft ==
    [][\A r \in LoadRunners :
         ReadErrorStep(r) =>
           /\ warehouse' = warehouse
           /\ validated' = validated
           /\ archive' = archive
           /\ ld'[r].log[Len(ld'[r].log)].file \in DOMAIN validated'
           /\ ld'[r].pc = "loop"
           /\ ld'[r].todo =
                ld[r].todo \ {ld'[r].log[Len(ld'[r].log)].file}]_vars

\* A run that failed to read one blob and archived another afterwards.
C8_Witness ==
    \E r \in LoadRunners : \E i \in DOMAIN ld[r].log :
      \E j \in DOMAIN ld[r].log :
        /\ i < j
        /\ ld[r].log[i].outcome = "read_error"
        /\ ld[r].log[j].outcome = "archived"
        /\ ld[r].log[i].file \in DOMAIN validated

\* C9: a finished extraction has fetched every city, and what it wrote is
\* the successfully fetched records in city order, nothing else; nothing
\* fetched, nothing written.
C9_FetchFailuresDropped ==
    /\ ex_pc # "raised"
    /\ ex_pc = "done" =>
         /\ Len(ex_results) = Len(CITIES)
         /\ WrittenRecords = Fetched(ex_results)
         /\ total_fetched = Len(Fetched(ex_results))
         /\ Fetched(ex_results) = <<>> => ex_written = <<>>
         /\ \A i \in DOMAIN ex_written :
              /\ ex_written[i].name \in DOMAIN raw
              /\ raw[ex_written[i].name] = ex_written[i].payload

C9_Witness ==
    /\ ex_pc = "done"
    /\ \E i \in DOMAIN ex_results : ex_results[i] = None
    /\ \E i \in DOMAIN ex_results : ex_results[i] # None

\* C10: a finished extraction with N fetched records wrote ceil(N /
\* BATCH_SIZE) batches, all of BATCH_SIZE records but the last, which has
\* 1..BATCH_SIZE; record_count is the length of records; the batches
\* concatenated are the fetched sequence.
C10_Batching ==
    ex_pc = "done" =>
      LET N == Len(Fetched(ex_results))
          k == Len(ex_written)
          size(i) == Len(ex_written[i].payload.records)
      IN /\ k = (N + BATCH_SIZE - 1) \div BATCH_SIZE
         /\ \A i \in 1..k :
              /\ size(i) >= 1
              /\ size(i) <= BATCH_SIZE
              /\ i < k => size(i) = BATCH_SIZE
              /\ ex_written[i].payload.meta.record_count = size(i)
         /\ WrittenRecords = Fetched(ex_results)

C10_Witness ==
    /\ ex_pc = "done"
    /\ Len(ex_written) = 2
    /\ Len(ex_written[1].payload.records) = BATCH_SIZE
    /\ Len(ex_written[2].payload.records) < BATCH_SIZE

\* C11: the batches a run has written carry the ids 1, 2, ..., k in write
\* order, in the payload and in the file name, and the next id to give is
\* k + 1.
C11_BatchIdsSequential ==
    /\ \A i \in DOMAIN ex_written :
         /\ ex_written[i].payload.meta.batch_id = i
         /\ ex_written[i].name.batch = i
    /\ ex_pc = "fetch" => batch_count = Len(ex_written) + 1

\* A run in which a fetch failed after the first batch was written.
C11_Witness ==
    /\ ex_pc = "done"
    /\ ex_written # <<>>
    /\ ex_written[Len(ex_written)].payload.meta.batch_id = Len(ex_written)
    /\ ex_results[Len(ex_results)] = None

\* C12: a batch is never written under the name of a blob that is already
\* in raw staging.
C12_NoOverwrite ==
    [][Len(ex_written') = Len(ex_written) + 1 =>
         ex_written'[Len(ex_written')].name \notin DOMAIN raw]_vars

\* The list validation saved for a raw file under a suffix, empty when it
\* saved none.
SavedList(dir, filename, suffix) ==
    IF WithSuffix(filename, suffix) \in DOMAIN dir
    THEN dir[WithSuffix(filename, suffix)]
    ELSE <<>>

\* C13: a raw batch without records that validation processed has no
\* validated blob and no rejected blob, and is in archive, not in raw.
C13_EmptyBatchArchived ==
    \A i \in DOMAIN va_log :
      LET f == va_log[i].file
      IN (/\ va_log[i].outcome = "ok"
          /\ f \in DOMAIN raw
          /\ raw[f].records = <<>>) =>
           /\ WithSuffix(f, "valid") \notin DOMAIN validated
           /\ WithSuffix(f, "rejected") \notin DOMAIN rejected
           /\ f \in DOMAIN archive

\* C18: every record of a validated blob carries validated_at and no
\* validation_errors; every record of a rejected blob carries
\* validation_errors and no validated_at.
C18_ExactlyOneAnnotation ==
    /\ \A x \in RecordsOf(validated) :
         /\ x.meta # None
         /\ x.meta[1].validated_at # None
         /\ x.meta[1].validation_errors = None
    /\ \A x \in RecordsOf(rejected) :
         /\ x.meta # None
         /\ x.meta[1].validation_errors # None
         /\ x.meta[1].validated_at = None

\* A batch validated again in a later run, with accepted and rejected
\* records.
C18_Witness ==
    /\ runs >= 2
    /\ now = 1
    /\ va_pc = "done"
    /\ \E x \in RecordsOf(validated) : x.meta[1].validated_at = Some(1)
    /\ \E x \in RecordsOf(validated) : x.meta[1].validated_at = Some(0)
    /\ RecordsOf(rejected) # {}

\* C19: for a raw batch that validation processed, the accepted list is
\* the records the validator found valid and the rejected list the others,
\* each in the order of the batch; together they have as many records as
\* the batch.
C19_Partition ==
    \A i \in DOMAIN va_log :
      va_log[i].outcome = "ok" =>
        LET f == va_log[i].file
            records == raw[f].records
            IsValid(r) == BasicValidate(r).is_valid
            IsInvalid(r) == ~BasicValidate(r).is_valid
            valid_batch == SavedList(validated, f, "valid")
            rejected_batch == SavedList(rejected, f, "rejected")
        IN /\ Len(valid_batch) + Len(rejected_batch) = Len(records)
           /\ [k \in DOMAIN valid_batch |-> StripMeta(valid_batch[k])]
                = SelectSeq(records, IsValid)
           /\ [k \in DOMAIN rejected_batch |-> StripMeta(rejected_batch[k])]
                = SelectSeq(records, IsInvalid)

\* A processed batch with two different rejected records.
C19_Witness ==
    \E i \in DOMAIN va_log :
      /\ va_log[i].outcome = "ok"
      /\ Len(SavedList(rejected, va_log[i].file, "rejected")) >= 2
      /\ SavedList(rejected, va_log[i].file, "rejected")[1]
           # SavedList(rejected, va_log[i].file, "rejected")[2]

\* How many times x occurs in the sequence s.
Count(s, x) == Cardinality({k \in DOMAIN s : s[k] = x})

RequiredFields ==
    {"City name", "Country code", "Temperature", "Humidity", "Pressure",
     "Weather conditions"}

MissingError(field_name) ==
    CASE field_name = "City name" -> "Missing required field: City name"
      [] field_name = "Country code" ->
           "Missing required field: Country code"
      [] field_name = "Temperature" -> "Missing required field: Temperature"
      [] field_name = "Humidity" -> "Missing required field: Humidity"
      [] field_name = "Pressure" -> "Missing required field: Pressure"
      [] field_name = "Weather conditions" ->
           "Missing required field: Weather conditions"

\* The required field is absent, or is an empty string or an empty list.
AbsentOrEmpty(data, field_name) ==
    CASE field_name = "City name" -> data.name \in {None, Some("")}
      [] field_name = "Country code" -> data.country \in {None, Some("")}
      [] field_name = "Temperature" -> data.temp = None
      [] field_name = "Humidity" -> data.humidity = None
      [] field_name = "Pressure" -> data.pressure = None
      [] field_name = "Weather conditions" ->
           data.weather \in {None, Some(<<>>)}

TemperatureErrors ==
    {"Missing required field: Temperature",
     "Temperature is outside valid range"}

HumidityErrors ==
    {"Missing required field: Humidity",
     "Humidity is invalid (must be 0-100%)"}

\* The record validates once the named field is given an ordinary value.
ValidButTemperature(data) ==
    StrictValidate([data EXCEPT !.temp = Some(20)]).is_valid

ValidButHumidity(data) ==
    StrictValidate([data EXCEPT !.humidity = Some(65)]).is_valid

\* C14: after validate on a record, for every required field that is
\* absent or empty the verdict is invalid and the error list names the
\* field in exactly one 'Missing required field' error.
C14_MissingFieldsReported ==
    validator.data # None =>
      \A f \in RequiredFields :
        AbsentOrEmpty(validator.data[1], f) =>
          /\ ~validator.is_valid
          /\ Count(validator.validation_errors, MissingError(f)) = 1

\* A record without country, humidity and pressure, and with an empty
\* weather list.
C14_Witness ==
    /\ validator.data # None
    /\ validator.data[1].country = None
    /\ validator.data[1].humidity = None
    /\ validator.data[1].pressure = None
    /\ validator.data[1].weather = Some(<<>>)
    /\ validator.data[1].name = Some("Lagos")
    /\ Len(validator.validation_errors) = 4

\* C15: after validate on a record whose temperature is outside
\* [-90, 60], there is exactly one temperature error and no temperature
\* warning.
C15_ErrorSupersedesWarning ==
    (/\ validator.data # None
     /\ validator.data[1].temp # None
     /\ \/ validator.data[1].temp[1] < -90
        \/ validator.data[1].temp[1] > 60) =>
       /\ Cardinality({k \in DOMAIN validator.validation_errors :
                         validator.validation_errors[k]
                           \in TemperatureErrors}) = 1
       /\ \A k \in DOMAIN validator.validation_warnings :
            validator.validation_warnings[k]
              # "Temperature is unusual but possible"

\* C16: after validate on an otherwise valid record with humidity h, there
\* is an error about humidity exactly when h is outside [0, 100]; outside,
\* it is the only error and the verdict is invalid; inside, the verdict is
\* valid.
C16_HumidityRange ==
    (/\ validator.data # None
     /\ validator.data[1].humidity # None
     /\ ValidButHumidity(validator.data[1])) =>
       LET h == validator.data[1].humidity[1]
           about == {k \in DOMAIN validator.validation_errors :
                       validator.validation_errors[k] \in HumidityErrors}
       IN IF h < 0 \/ h > 100
          THEN /\ Cardinality(about) = 1
               /\ Len(validator.validation_errors) = 1
               /\ ~validator.is_valid
          ELSE /\ about = {}
               /\ validator.is_valid

\* C17: after validate on an otherwise valid record with temperature t in
\* [-90, 60], there is no error about temperature and the verdict is
\* valid; for t strictly between -40 and 50 there is no temperature
\* warning.
C17_TemperatureRange ==
    (/\ validator.data # None
     /\ validator.data[1].temp # None
     /\ ValidButTemperature(validator.data[1])
     /\ validator.data[1].temp[1] >= -90
     /\ validator.data[1].temp[1] <= 60) =>
       LET t == validator.data[1].temp[1]
       IN /\ \A k \in DOMAIN validator.validation_errors :
               validator.validation_errors[k] \notin TemperatureErrors
          /\ validator.is_valid
          /\ (t > -40 /\ t < 50) =>
               Count(validator.validation_warnings,
                     "Temperature is unusual but possible") = 0

\* C20: a run of main that ended with nothing ingested ended with a
\* non-zero exit status.
C20_ZeroIngestedExitsNonZero ==
    (mn.pc = "exited" /\ mn.ingested_count = 0) =>
       mn.exit_status # Some(0)


\* ---------------------------------------------------------------- C21
\* The records main has passed to insert_weather_data so far.
Attempted == SubSeq(mn.valid_data, 1, mn.j - 1)

\* C21: in a run of main, every row of the warehouse is the row of a record
\* of valid_data, and every record of valid_data is one for which validate
\* returned is_valid = True with no error; the record validate was last
\* called with is the last one of valid_data when it has no error (its
\* warnings do not count) and is not in valid_data when it has one; and
\* ingested_count <= validated_count <= the number of cities.
C21_QualityGate ==
    /\ \A k \in 1..Len(mn.valid_data) :
         LET v == StrictValidate(mn.valid_data[k].weather_data)
         IN v.is_valid /\ v.validation_errors = <<>>
    /\ \A row \in warehouse :
         \E k \in 1..Len(Attempted) :
            NormRow(row) =
               NormRow(MainRow(row.id, Attempted[k].weather_data, 0))
    /\ validator.data # None =>
         IF validator.validation_errors = <<>>
         THEN /\ mn.valid_data # <<>>
              /\ mn.valid_data[Len(mn.valid_data)].weather_data
                   = validator.data[1]
         ELSE \A k \in 1..Len(mn.valid_data) :
                 mn.valid_data[k].weather_data # validator.data[1]
    /\ mn.validated_count = Len(mn.valid_data)
    /\ mn.ingested_count = Cardinality(warehouse)
    /\ mn.ingested_count <= mn.validated_count
    /\ mn.validated_count <= Len(cities)

\* A run that rejected one city's record for an error and inserted another
\* city's record that had a warning and no error.
C21_Witness ==
    /\ mn.pc = "exited"
    /\ mn.failed_validation # <<>>
    /\ mn.warnings_list # <<>>
    /\ \E row \in warehouse : row.temperature = Some(-45)
    /\ \A row \in warehouse : row.temperature # Some(-150)
    /\ mn.ingested_count = 1


\* ---------------------------------------------------------------- C22
\* The columns of weather_data other than id and ingestion_timestamp.
RecordColumns ==
    {"city", "country", "temperature", "feels_like", "temp_min", "temp_max",
     "pressure", "humidity", "weather_main", "weather_description",
     "wind_speed", "wind_deg", "clouds", "timestamp"}

\* The columns the WHEN MATCHED branch assigns.
UpdatedColumns ==
    {"temperature", "humidity", "weather_description", "ingestion_timestamp"}

\* The value the statement's parameters give for a column.
ParamOf(p, column) ==
    CASE column = "temperature" -> p.temp
      [] column = "weather_description" -> p.description
      [] OTHER -> p[column]

\* The rows the ON clause selects for the record.
SameKey(rows, p) ==
    {row \in rows : row.city = p.city /\ row.timestamp = p.timestamp}

\* A step in which a MERGE of runner r executed.
MergeExecuted(r) == ld'[r].count = ld[r].count + 1

\* C22: a MERGE whose (city, timestamp) has a row changes, in that row, only
\* temperature, humidity, weather_description and ingestion_timestamp, sets
\* the first three to the record's values, leaves every other row as it was
\* and adds no row; a MERGE whose (city, timestamp) has no row adds exactly
\* one row, which carries the fourteen fields of the record, and leaves the
\* other rows as they were.
C22_UpsertFrame ==
    [][\A r \in OverlapRunners :
         MergeExecuted(r) =>
           LET p == ExtractFields(ld[r].records[ld[r].idx])
               hit == SameKey(warehouse, p)
           IN IF hit # {}
              THEN /\ {row.id : row \in warehouse'}
                        = {row.id : row \in warehouse}
                   /\ Cardinality(warehouse') = Cardinality(warehouse)
                   /\ warehouse \ hit \subseteq warehouse'
                   /\ \A old \in hit :
                        \E new \in warehouse' :
                           /\ new.id = old.id
                           /\ \A c \in DOMAIN old \ UpdatedColumns :
                                new[c] = old[c]
                           /\ \A c \in UpdatedColumns \cap RecordColumns :
                                new[c] = ParamOf(p, c)
              ELSE /\ warehouse \subseteq warehouse'
                   /\ Cardinality(warehouse') = Cardinality(warehouse) + 1
                   /\ \A new \in warehouse' \ warehouse :
                        /\ \A old \in warehouse : new.id # old.id
                        /\ \A c \in RecordColumns : new[c] = ParamOf(p, c)]_vars

\* A MERGE has updated a row whose pressure differs from the record's, and
\* another MERGE has inserted a row.
C22_Witness ==
    /\ Cardinality(warehouse) >= 2
    /\ \E row \in warehouse :
         /\ row.temperature = Some(25)
         /\ row.pressure = Some(1013)

\* ---------------------------------------------------------------- C23
\* Runner r has just archived a batch all of whose MERGEs executed.
JustLoaded(r) ==
    /\ ld[r].pc = "loop"
    /\ ld[r].log # <<>>
    /\ LET last == ld[r].log[Len(ld[r].log)]
       IN /\ last.outcome = "archived"
          /\ last.file = ld[r].cur
          /\ last.size > 0
          /\ last.count = last.size

\* C23: right after Load has merged every record of a batch, the warehouse
\* holds exactly one row for each (city, timestamp) of the batch and each of
\* the fourteen fields of that row has the value of the batch's record.
C23_BatchReflected ==
    \A r \in LoadRunners :
       JustLoaded(r) =>
         \A k \in 1..Len(ld[r].records) :
            LET p == ExtractFields(ld[r].records[k])
                hit == SameKey(warehouse, p)
            IN /\ Cardinality(hit) = 1
               /\ \A row \in hit :
                    \A c \in RecordColumns : row[c] = ParamOf(p, c)

\* ---------------------------------------------------------------- C24
\* Runner r leaves the state in which load_batch has returned, other than
\* by being killed.
AfterLoadBatch(r) ==
    /\ ld[r].pc = "archive"
    /\ ld'[r].pc \notin {"archive", "crashed"}

\* C24: when load_batch has gone through all records of a batch, the next
\* step of the run moves the batch from validated to archive, however many
\* MERGEs failed, and reports the number of MERGEs that executed: the count
\* grows by one in exactly the iterations whose MERGE took effect, and an
\* iteration whose MERGE failed leaves the table and the count as they were.
C24_ArchivedWithSuccessCount ==
    [][\A r \in LoadRunners :
         /\ AfterLoadBatch(r) =>
              /\ ld[r].cur \notin DOMAIN validated'
              /\ ld[r].cur \in DOMAIN archive'
              /\ archive'[ld[r].cur] = validated[ld[r].cur]
              /\ ld'[r].log = Append(ld[r].log,
                                     [file |-> ld[r].cur,
                                      outcome |-> "archived",
                                      size |-> Len(ld[r].records),
                                      count |-> ld[r].count])
         /\ (ld[r].pc = "merge" /\ ld'[r].idx = ld[r].idx + 1) =>
              \/ /\ ld'[r].count = ld[r].count + 1
                 /\ StripMeta(ld[r].records[ld[r].idx]) \in merged'
                 /\ SameKey(warehouse',
                            ExtractFields(ld[r].records[ld[r].idx])) # {}
              \/ /\ ld'[r].count = ld[r].count
                 /\ budget' = budget - 1
                 /\ UNCHANGED <<warehouse, next_id, merged>>]_vars

\* A batch was archived although one of its MERGEs had failed.
C24_Witness ==
    \E r \in LoadRunners :
       \E k \in 1..Len(ld[r].log) :
          /\ ld[r].log[k].outcome = "archived"
          /\ ld[r].log[k].count < ld[r].log[k].size
          /\ ld[r].log[k].file \in DOMAIN archive


\* ---------------------------------------------------------------- C25
\* A step in which the iteration over a raw file ended in the except clause.
BatchFailed ==
    /\ Len(va_log') = Len(va_log) + 1
    /\ va_log'[Len(va_log')].outcome = "error"

\* The files of the listing that have an entry in the run's log.
Iterated == {va_log[i].file : i \in DOMAIN va_log}

\* C25: the iteration over a raw file that cannot be read writes nothing to
\* validated or rejected, leaves raw as it was and goes on with the loop;
\* a run that returns has iterated over every file of its listing; and
\* every file whose iteration did not fail has its validated blob and its
\* rejected blob, when it has a record of either kind.
C25_BatchIsolation ==
    /\ [][BatchFailed =>
            /\ UNCHANGED <<raw, validated, rejected, archive>>
            /\ va_todo' = va_todo \ {va_log'[Len(va_log')].file}
            /\ va_pc' = "loop"]_vars
    /\ [](va_pc = "done" => Iterated = DOMAIN raw)
    /\ [](\A i \in DOMAIN va_log :
            LET f == va_log[i].file
            IN va_log[i].outcome = "ok" =>
                 /\ ValidBatch(raw[f].records, now) # <<>> =>
                      WithSuffix(f, "valid") \in DOMAIN validated
                 /\ RejectedBatch(raw[f].records, now) # <<>> =>
                      WithSuffix(f, "rejected") \in DOMAIN rejected)

\* A run that returned after the first of two raw files could not be read:
\* that file has no output and is still in raw, the other has its output.
C25_Witness ==
    /\ va_pc = "done"
    /\ Len(va_log) = 2
    /\ va_log[1].outcome = "error"
    /\ va_log[2].outcome = "ok"
    /\ va_log[1].file \in DOMAIN raw
    /\ WithSuffix(va_log[1].file, "valid") \notin DOMAIN validated
    /\ WithSuffix(va_log[1].file, "rejected") \notin DOMAIN rejected
    /\ WithSuffix(va_log[2].file, "valid") \in DOMAIN validated


\* ---------------------------------------------------------------- C26
\* C26: while a run of run_extraction still has a city to fetch, it has
\* written no batch file.
C26_WritesAfterFetchPhase ==
    (ex_pc = "fetch" /\ ex_i <= Len(CITIES)) => ex_written = <<>>

\* ---------------------------------------------------------------- C27
\* The record validate was last called with has a wind speed.
WindSpeedPresent ==
    validator.data # None /\ validator.data[1].wind_speed # None

\* C27: after a call of validate on a record with wind speed w, there is a
\* wind error exactly when w < 0 or w > 113 and the hurricane-force warning
\* exactly when 33 < w <= 113; after a call on a record without wind speed
\* there is neither.
C27_WindRule ==
    validator.data # None =>
      LET e == Count(validator.validation_errors,
                     "Wind speed cannot be negative")
               + Count(validator.validation_errors,
                       "Wind speed exceeds maximum recorded wind speed")
          h == Count(validator.validation_warnings,
                     "Wind speed indicates hurricane-force winds")
      IN IF WindSpeedPresent
         THEN LET w == validator.data[1].wind_speed[1]
              IN /\ e > 0 <=> (w < 0 \/ w > 113)
                 /\ h > 0 <=> (33 < w /\ w <= 113)
         ELSE e = 0 /\ h = 0


\* ---------------------------------------------------------------- C30
\* C30: a record for which the strict validate returned is_valid = True is
\* a record for which the validate of validate.py returns True.
C30_StrictImpliesBasic ==
    (validator.data # None /\ validator.is_valid) =>
       /\ BasicValidate(validator.data[1]).is_valid
       /\ BasicValidate(validator.data[1]).errors = <<>>

\* The strict validator accepted a record with an unusual temperature, and
\* so does the basic one.
C30_Witness ==
    /\ validator.data # None
    /\ validator.is_valid
    /\ validator.validation_warnings # <<>>
    /\ validator.data[1].temp = Some(-45)
    /\ BasicValidate(validator.data[1]).is_valid


\* ---------------------------------------------------------------- C28
\* The bucket holds, under the key, the blob the move started with.
HoldsBlob(key) ==
    key \in DOMAIN bucket /\ bucket[key] = mv.blob[1]

\* C28: during and after a call of move_s3_object on an existing blob, the
\* blob is under the source key or under the destination key; after the
\* copy and before the delete, and after a crash or a failed delete between
\* them, it is under both; when the copy failed the bucket is as it was
\* before the call and the call returned False; when the call returned True
\* the blob is under the destination key only.  A call on a key without
\* blob changes nothing and does not return True.
C28_MoveNeverLoses ==
    mv.pc # "idle" =>
      IF mv.blob # None
      THEN /\ HoldsBlob(mv.source_key) \/ HoldsBlob(mv.dest_key)
           /\ (mv.copied /\ mv.result # Some(TRUE)) =>
                HoldsBlob(mv.source_key) /\ HoldsBlob(mv.dest_key)
           /\ ~mv.copied => bucket = mv.before
           /\ (~mv.copied /\ mv.pc = "returned") => mv.result = Some(FALSE)
           /\ mv.result = Some(TRUE) =>
                /\ mv.copied
                /\ HoldsBlob(mv.dest_key)
                /\ mv.source_key \notin DOMAIN bucket
      ELSE /\ bucket = mv.before
           /\ mv.result # Some(TRUE)

\* The process was killed between the copy and the delete of a blob.
C28_Witness ==
    /\ mv.pc = "crashed"
    /\ mv.copied
    /\ mv.blob # None
    /\ mv.source_key # mv.dest_key
    /\ HoldsBlob(mv.source_key)
    /\ HoldsBlob(mv.dest_key)


\* ---------------------------------------------------------------- C29
\* A step in which runner r found a listed file gone, on open or on move.
MissingFileStep(r) ==
    /\ Len(ld'[r].log) = Len(ld[r].log) + 1
    /\ LET entry == ld'[r].log[Len(ld'[r].log)]
       IN /\ entry.outcome \in {"read_error", "move_error"}
          /\ entry.file \notin DOMAIN validated

\* No two rows of the table have the same city and timestamp.
OneRowPerObservation ==
    \A row1, row2 \in warehouse :
       (row1.city = row2.city /\ row1.timestamp = row2.timestamp) =>
          row1 = row2

\* C29: with two runs of run_loading started at any moments, a run that
\* finds a listed file gone, on open or on move, goes on with its loop and
\* keeps its other files to do; a run that returns has no file left to do;
\* a file a run could not move because it was gone is in archive and not
\* in validated, and so is every file some run archived; every file a run
\* has dealt with is in validated or in archive; and the table has at most
\* one row per (city, timestamp).
C29_OverlappingLoads ==
    /\ [][\A r \in OverlapRunners :
            MissingFileStep(r) =>
              /\ ld'[r].pc = "loop"
              /\ ld[r].todo \ {ld'[r].log[Len(ld'[r].log)].file}
                   \subseteq ld'[r].todo]_vars
    /\ [](\A r \in OverlapRunners : ld[r].pc = "done" => ld[r].todo = {})
    /\ [](\A r \in OverlapRunners :
            \A k \in DOMAIN ld[r].log :
               ld[r].log[k].outcome \in {"archived", "move_error"} =>
                  /\ ld[r].log[k].file \in DOMAIN archive
                  /\ ld[r].log[k].file \notin DOMAIN validated)
    /\ [](\A r \in OverlapRunners :
            \A k \in DOMAIN ld[r].log :
               ld[r].log[k].file \in DOMAIN validated \cup DOMAIN archive)
    /\ []OneRowPerObservation

\* Both runs have returned; the second could not move a file the first had
\* archived, and archived another file afterwards; both had merged the
\* records of the shared file.
C29_Witness ==
    /\ ld[1].pc = "done" /\ ld[2].pc = "done"
    /\ \E j \in DOMAIN ld[1].log :
         \E k1, k2 \in DOMAIN ld[2].log :
            /\ k1 < k2
            /\ ld[2].log[k1].outcome = "move_error"
            /\ ld[2].log[k1].count > 0
            /\ ld[2].log[k2].outcome = "archived"
            /\ ld[1].log[j].outcome = "archived"
            /\ ld[1].log[j].file = ld[2].log[k1].file
            /\ ld[1].log[j].count > 0
    /\ warehouse # {}
    /\ OneRowPerObservation

====
